---- MODULE Spec2Model ----
(***************************************************************************)
(* A model of pyxnat/core/downloadutils.py: unzip, default_zip_name and    *)
(* download.  The file system is a function from path to file content,     *)
(* one call of download runs at a time (the code is synchronous), and a    *)
(* call advances statement by statement through the variable pc.           *)
(***************************************************************************)
EXTENDS Naturals, Sequences, FiniteSets, TLC

VARIABLES
    fs,            \* the file system: [path -> content], DOMAIN fs = the existing paths
    fs0,           \* fs as it was when the running call of download was entered
    pc,            \* position of the running call: idle, get, exists, preset, exec, open, unzip, close, done
    args,          \* the arguments of the running call
    available,     \* local `available` (line 136): number of items listed, NoValue before
    zip_location,  \* local `zip_location` (line 142)
    fzip,          \* the ZipFile object of line 155: [state |-> none | open | closed, namelist]
    result,        \* how the call ended: [kind |-> none | ok | error, ...]
    log,           \* the calls the running invocation made to its collaborators and to the OS, in order
    cbase,         \* default_zip_name: instance._cbase, a sequence of characters
    cbase_type,    \* default_zip_name: the class of instance._cbase (str or unicode)
    kind,          \* default_zip_name: the class of instance (Scans, Assessors, ...)
    constraints,   \* default_zip_name: the constraints list
    name_pc,       \* default_zip_name: input, done
    name_result,   \* default_zip_name: [kind |-> none | ok | error, ...]
    constraints_str, \* make_constraints_list: the raw string, a sequence of characters
    parse_pc,      \* make_constraints_list: input, parsed, reparsed
    parsed,        \* make_constraints_list(constraints_str): [kind |-> none | ok | error, ...]
    reparsed,      \* make_constraints_list(','.join(parsed list))
    ncalls,        \* number of download calls entered in a sequence of calls
    fetches        \* number of times _exec wrote a file at zip_location in that sequence

dvars == <<fs, fs0, pc, args, available, zip_location, fzip, result, log>>
\* the variables of the two pure functions
svars == <<cbase, cbase_type, kind, constraints, name_pc, name_result,
           constraints_str, parse_pc, parsed, reparsed>>
\* the counters kept over a sequence of calls; no statement of download reads them
gvars == <<ncalls, fetches>>
\* what a statement of download leaves alone
nvars == <<svars, gvars>>
vars == <<fs, fs0, pc, args, available, zip_location, fzip, result, log,
          cbase, cbase_type, kind, constraints, name_pc, name_result,
          constraints_str, parse_pc, parsed, reparsed, ncalls, fetches>>

----------------------------------------------------------------------------
(* Bounds of the model *)

\* an archive holds at most MaxMembers members
MaxMembers == 2
\* the availability query lists at most MaxAvailable items
MaxAvailable == 1

----------------------------------------------------------------------------
(* Values *)

\* Python's None, as an argument value
None == "<None>"
\* a local that has not been assigned yet
NoValue == "<unset>"

\* the values the caller may pass
DestDirs == {None, "", "d"}
ZipNames == {None, "", "z"}
Instances == {None, "scans"}
Uri == "/REST/projects/p/subjects/s/experiments/e/scans/ALL/files?format=zip"

\* member names an archive may hold (duplicates allowed, order matters); a zip
\* archive may name a member with a leading "/"
MemberNames == {"a", "b", "/a"}

\* the names that are absolute paths, and each name without its leading "/"
AbsoluteNames == {"/a"}
relative(n) == IF n = "/a" THEN "a" ELSE n

\* os.path.join(a, b): an absolute b discards a, an empty a adds no separator
join(a, b) ==
    IF b \in AbsoluteNames THEN b
    ELSE IF a = "" THEN b
    ELSE a \o "/" \o b

\* where ZipFile.extract puts member n under directory d: it strips the leading
\* "/" of an absolute member name and joins the rest to d
extract_target(d, n) == join(d, relative(n))

\* SeqsUpTo(S, n): the sequences over S of length at most n
SeqsUpTo(S, n) == UNION {[1..k -> S] : k \in 0..n}

Archives == SeqsUpTo(MemberNames, MaxMembers)

\* file contents.  download never reads a file it did not write in the same
\* call, so a file written before the running call is OldFile whatever wrote it.
OldFile == [kind |-> "old", members |-> <<>>]
ZipFile(members) == [kind |-> "zip", members |-> members]
JunkFile == [kind |-> "junk", members |-> <<>>]
MemberFile == [kind |-> "member", members |-> <<>>]

\* every path a call can touch
Paths ==
    {join(d, n) : d \in DestDirs \ {None},
                  n \in MemberNames \cup {z \o ".zip" : z \in ZipNames \ {None}}}
    \cup {extract_target(d, n) : d \in DestDirs \ {None}, n \in MemberNames}

\* the errors the transport may raise from _exec
TransportErrors ==
    { [type |-> "socket.error", msg |-> "connection refused"],
      [type |-> "HTTPError", msg |-> "404"] }

NoError == [type |-> "", msg |-> ""]

\* a call the running invocation made, and the error that call raised, if any
Event(op, arg) == [op |-> op, arg |-> arg, err |-> NoError]
FailedEvent(op, arg, e) == [op |-> op, arg |-> arg, err |-> e]

\* the ZipFile object of line 155: its state and its namelist()
NoHandle == [state |-> "none", namelist |-> <<>>]
OpenHandle(members) == [state |-> "open", namelist |-> members]
close(h) == [h EXCEPT !.state = "closed"]

----------------------------------------------------------------------------
(* File system primitives *)

\* an existence test that never finds the file
exists_never(p, f) == FALSE

\* os.path.exists(p)
exists(p, f) == p \in DOMAIN f

\* the file system f with content c written at p (created or replaced)
write(f, p, c) == [q \in DOMAIN f \cup {p} |-> IF q = p THEN c ELSE f[q]]

----------------------------------------------------------------------------
(* unzip, lines 13-41 *)

\* the check download builds at lines 157-158
check_run(f, d, files) == ~ exists(join(d, f), files)

\* the default check of unzip, line 15
default_run(f, d, files) == TRUE

\* check['run'](member, dest_dir), for the guarded and the default check
run(guarded, f, d, files) ==
    IF guarded THEN check_run(f, d, files) ELSE default_run(f, d, files)

\* the loop of lines 36-38: index of the first member failing the check, 0 if none
FirstFailing(members, d, guarded, files) ==
    LET bad == {i \in 1..Len(members) : ~ run(guarded, members[i], d, files)}
    IN  IF bad = {} THEN 0 ELSE CHOOSE i \in bad : \A j \in bad : i <= j

\* fzip.extractall(path=dest_dir), line 40: every member written in archive order
RECURSIVE extractall(_, _, _)
extractall(members, d, files) ==
    IF members = <<>> THEN files
    ELSE extractall(Tail(members), d,
                    write(files, extract_target(d, Head(members)), MemberFile))

\* an unzip that extracts each member as soon as it has passed the check, and
\* stops at the first member that fails it
unzip_member_by_member(members, d, guarded, files) ==
    LET bad == FirstFailing(members, d, guarded, files)
    IN  IF bad # 0
        THEN [ok |-> FALSE, value |-> <<members[bad]>>,
              fs |-> extractall(SubSeq(members, 1, bad - 1), d, files),
              checked |-> bad, extracted |-> FALSE]
        ELSE [ok |-> TRUE,
              value |-> [i \in 1..Len(members) |-> join(d, members[i])],
              fs |-> extractall(members, d, files),
              checked |-> IF guarded THEN Len(members) ELSE 0,
              extracted |-> TRUE]

\* unzip(fzip, dest_dir, check): the returned tuple, and the file system it leaves
unzip(members, d, guarded, files) ==
    LET bad == FirstFailing(members, d, guarded, files)
    IN  IF bad # 0
        THEN [ok |-> FALSE, value |-> <<members[bad]>>, fs |-> files, checked |-> bad,
              extracted |-> FALSE]
        ELSE [ok |-> TRUE,
              value |-> [i \in 1..Len(members) |-> join(d, members[i])],
              fs |-> extractall(members, d, files),
              checked |-> IF guarded THEN Len(members) ELSE 0,
              extracted |-> TRUE]

----------------------------------------------------------------------------
(* download, lines 90-174 *)

ArgumentError(msg) == [type |-> "Exception", msg |-> msg]

\* line 147
DestinationExists(zl) ==
    [type |-> "EnvironmentError",
     msg |-> "Unable to download to " \o zl \o " because this file already exists."]

\* the description of the check, line 158
check_desc == "File does not exist in the parent directory"

\* line 163
ExtractionBlocked(zl, member) ==
    [type |-> "EnvironmentError",
     msg |-> "Unable to extract " \o zl \o " because file " \o member
             \o " failed the following test: " \o check_desc]

\* what calling the tuple returned by unzip raises, line 160
TupleNotCallable == [type |-> "TypeError", msg |-> "'tuple' object is not callable"]

\* zipfile.ZipFile(zip_location, 'r') on a file that is no archive, line 155
BadZipfile == [type |-> "BadZipfile", msg |-> "File is not a zip file"]

\* handlers that raise a new EnvironmentError carrying the message of e
Handler_wrapping(e) == [type |-> "EnvironmentError", msg |-> e.msg]

\* the handlers of lines 169-174: print e; raise e
Handler(e) == e

Ok(v) == [kind |-> "ok", value |-> v, error |-> NoError]
Raised(e) == [kind |-> "error", value |-> <<>>, error |-> e]
NoResult == [kind |-> "none", value |-> <<>>, error |-> NoError]

\* argument tests that leave out the test of zip_name
precondition_without_zip_name(instance, dest_dir, zip_name) ==
    IF instance = None
    THEN ArgumentError("This function should be called directly but from an instance of a class that supports bulk downloading, eg. \"Scans\"")
    ELSE IF dest_dir = None
    THEN ArgumentError("Destination directory is unspecified")
    ELSE NoError

\* lines 128-133: the error the argument tests raise, NoError when they pass
precondition(instance, dest_dir, zip_name) ==
    IF instance = None
    THEN ArgumentError("This function should be called directly but from an instance of a class that supports bulk downloading, eg. \"Scans\"")
    ELSE IF dest_dir = None
    THEN ArgumentError("Destination directory is unspecified")
    ELSE IF zip_name = None
    THEN ArgumentError("Zip file name not specified")
    ELSE NoError

NoArgs == [dest_dir |-> None, zip_name |-> None, instance |-> None,
           extract |-> FALSE, overwrite |-> FALSE]

\* an extraction that applies the check of lines 157-158 whatever overwrite is
safeUnzip_always_guarded(members, d, overwrite, files) ==
    [raised |-> FALSE, ret |-> unzip(members, d, TRUE, files)]

\* lines 159-160: safeUnzip = lambda: unzip(fzip, dest_dir, check) if not overwrite
\*                             else lambda: unzip(fzip, dest_dir)
\*                (unzipped, paths) = safeUnzip()()
\* The conditional expression is the body of the outer lambda.  With overwrite
\* false safeUnzip() runs the guarded unzip and returns its tuple, and calling
\* that tuple raises TypeError; with overwrite true safeUnzip() returns the
\* inner lambda, and calling it runs unzip with the default check.
safeUnzip(members, d, overwrite, files) ==
    IF ~ overwrite
    THEN [raised |-> TRUE, ret |-> unzip(members, d, TRUE, files)]
    ELSE [raised |-> FALSE, ret |-> unzip(members, d, FALSE, files)]

\* the os.path.exists calls of the guarded check, one per member tested
CheckEvents(members, d, n) == [i \in 1..n |-> Event("check", join(d, members[i]))]

\* lines 90, 128-133: the call is entered and its arguments are tested
CallBody ==
    /\ pc = "idle"
    /\ \E d \in DestDirs, z \in ZipNames, i \in Instances, ex \in BOOLEAN, ow \in BOOLEAN :
         /\ args' = [dest_dir |-> d, zip_name |-> z, instance |-> i,
                     extract |-> ex, overwrite |-> ow]
         /\ LET e == precondition(i, d, z)
            IN  IF e # NoError
                THEN /\ result' = Raised(e)
                     /\ pc' = "done"
                ELSE /\ result' = NoResult
                     /\ pc' = "get"
    /\ fs0' = fs
    /\ log' = <<>>
    /\ available' = NoValue
    /\ zip_location' = NoValue
    /\ fzip' = NoHandle
    /\ UNCHANGED <<fs, svars>>

\* a call of download, counted or not
Call == CallBody /\ UNCHANGED gvars

\* the LookupError of the lines 138-140, which are commented out
NothingToDownload == [type |-> "LookupError", msg |-> "There are no scans to download"]

\* the availability query with the lines 138-140 in force
GetAvailable_raising_when_empty ==
    /\ pc = "get"
    /\ \E n \in 0..MaxAvailable :
         /\ available' = n
         /\ IF n = 0
            THEN result' = Raised(NothingToDownload) /\ pc' = "done"
            ELSE pc' = "exists" /\ UNCHANGED result
    /\ log' = Append(log, Event("get", args.instance))
    /\ UNCHANGED <<fs, fs0, args, zip_location, fzip, nvars>>

\* an existence test that lets the call go on whatever is at zipPath
CheckExists_unguarded ==
    /\ pc = "exists"
    /\ zip_location' = join(args.dest_dir, args.zip_name \o ".zip")
    /\ log' = Append(log, Event("exists", zip_location'))
    /\ pc' = "preset"
    /\ UNCHANGED <<fs, fs0, args, available, fzip, result, nvars>>

\* line 136: available = instance.get(instance); the result is never read
GetAvailable ==
    /\ pc = "get"
    /\ \E n \in 0..MaxAvailable : available' = n
    /\ log' = Append(log, Event("get", args.instance))
    /\ pc' = "exists"
    /\ UNCHANGED <<fs, fs0, args, zip_location, fzip, result, nvars>>

\* lines 142-147
CheckExists ==
    /\ pc = "exists"
    /\ LET zl == join(args.dest_dir, args.zip_name \o ".zip")
       IN  /\ zip_location' = zl
           /\ IF ~ args.overwrite
              THEN /\ log' = Append(log, Event("exists", zl))
                   /\ IF exists(zl, fs)
                      THEN /\ result' = Raised(DestinationExists(zl))
                           /\ pc' = "done"
                      ELSE /\ pc' = "preset"
                           /\ UNCHANGED result
              ELSE /\ pc' = "preset"
                   /\ UNCHANGED <<log, result>>
    /\ UNCHANGED <<fs, fs0, args, available, fzip, nvars>>

\* a call that goes to the fetch without the preset of line 151
Preset_skipped ==
    /\ pc = "preset"
    /\ pc' = "exec"
    /\ UNCHANGED <<fs, fs0, args, available, zip_location, fzip, result, log, nvars>>

\* line 151: instance._intf._http.cache.preset(zip_location)
Preset ==
    /\ pc = "preset"
    /\ log' = Append(log, Event("preset", zip_location))
    /\ pc' = "exec"
    /\ UNCHANGED <<fs, fs0, args, available, zip_location, fzip, result, nvars>>

\* line 153: instance._intf._exec(uri).  The transport writes the body of the
\* response at the preset path: an archive, or something that is no archive;
\* or it raises, and the handlers of lines 169-174 re-raise.
ExecBody ==
    /\ pc = "exec"
    /\ \/ \E members \in Archives :
            /\ fs' = write(fs, zip_location, ZipFile(members))
            /\ log' = Append(log, Event("exec", Uri))
            /\ pc' = "open"
            /\ UNCHANGED result
       \/ /\ fs' = write(fs, zip_location, JunkFile)
          /\ log' = Append(log, Event("exec", Uri))
          /\ pc' = "open"
          /\ UNCHANGED result
       \/ \E e \in TransportErrors :
            /\ log' = Append(log, FailedEvent("exec", Uri, e))
            /\ result' = Raised(Handler(e))
            /\ pc' = "done"
            /\ UNCHANGED fs
    /\ UNCHANGED <<fs0, args, available, zip_location, fzip, svars>>

\* the fetch, counted or not
Exec == ExecBody /\ UNCHANGED gvars

\* an opening that is followed by the extract branch whatever extract is
Open_always_extracting ==
    /\ pc = "open"
    /\ IF fs[zip_location].kind = "zip"
       THEN /\ fzip' = OpenHandle(fs[zip_location].members)
            /\ log' = Append(log, Event("open", zip_location))
            /\ pc' = "unzip"
            /\ UNCHANGED result
       ELSE /\ log' = Append(log, FailedEvent("open", zip_location, BadZipfile))
            /\ result' = Raised(Handler(BadZipfile))
            /\ pc' = "done"
            /\ UNCHANGED fzip
    /\ UNCHANGED <<fs, fs0, args, available, zip_location, nvars>>

\* line 155: fzip = zipfile.ZipFile(zip_location, 'r')
Open ==
    /\ pc = "open"
    /\ IF fs[zip_location].kind = "zip"
       THEN /\ fzip' = OpenHandle(fs[zip_location].members)
            /\ log' = Append(log, Event("open", zip_location))
            /\ pc' = IF args.extract THEN "unzip" ELSE "close"
            /\ UNCHANGED result
       ELSE /\ log' = Append(log, FailedEvent("open", zip_location, BadZipfile))
            /\ result' = Raised(Handler(BadZipfile))
            /\ pc' = "done"
            /\ UNCHANGED fzip
    /\ UNCHANGED <<fs, fs0, args, available, zip_location, nvars>>

\* lines 156-165: the extract branch
Unzip ==
    /\ pc = "unzip"
    /\ LET members == fzip.namelist
           r == safeUnzip(members, args.dest_dir, args.overwrite, fs)
       IN  /\ fs' = r.ret.fs
           /\ log' = log \o CheckEvents(members, args.dest_dir, r.ret.checked)
                         \o (IF r.ret.extracted
                             THEN <<Event("extractall", args.dest_dir)>> ELSE <<>>)
           /\ IF r.raised
              THEN /\ result' = Raised(Handler(TupleNotCallable))
                   /\ UNCHANGED fzip
              ELSE IF ~ r.ret.ok
              THEN /\ fzip' = close(fzip)
                   /\ result' = Raised(Handler(ExtractionBlocked(zip_location, r.ret.value[1])))
              ELSE /\ result' = Ok(r.ret.value)
                   /\ UNCHANGED fzip
    /\ pc' = "done"
    /\ UNCHANGED <<fs0, args, available, zip_location, nvars>>

\* lines 166-168: fzip.close(); return (True, zip_location)
CloseReturn ==
    /\ pc = "close"
    /\ fzip' = close(fzip)
    /\ log' = Append(log, Event("close", zip_location))
    /\ result' = Ok(<<zip_location>>)
    /\ pc' = "done"
    /\ UNCHANGED <<fs, fs0, args, available, zip_location, nvars>>

\* the call has returned or raised; its frame is dropped and the caller goes on
Return ==
    /\ pc = "done"
    /\ pc' = "idle"
    /\ args' = NoArgs
    /\ result' = NoResult
    /\ log' = <<>>
    /\ available' = NoValue
    /\ zip_location' = NoValue
    /\ fzip' = NoHandle
    /\ fs' = [p \in DOMAIN fs |-> OldFile]
    /\ fs0' = fs'
    /\ UNCHANGED nvars

InitNaming ==
    /\ cbase = <<>>
    /\ cbase_type = "str"
    /\ kind = "Scans"
    /\ constraints = <<>>
    /\ name_pc = "off"
    /\ name_result = NoResult
    /\ constraints_str = <<>>
    /\ parse_pc = "off"
    /\ parsed = NoResult
    /\ reparsed = NoResult
    /\ ncalls = 0
    /\ fetches = 0

Init ==
    /\ \E present \in SUBSET Paths : fs = [p \in present |-> OldFile]
    /\ fs0 = fs
    /\ pc = "idle"
    /\ args = NoArgs
    /\ available = NoValue
    /\ zip_location = NoValue
    /\ fzip = NoHandle
    /\ result = NoResult
    /\ log = <<>>
    /\ InitNaming

Next ==
    \/ Call
    \/ GetAvailable
    \/ CheckExists
    \/ Preset
    \/ Exec
    \/ Open
    \/ Unzip
    \/ CloseReturn
    \/ Return

Spec == Init /\ [][Next]_vars

----------------------------------------------------------------------------
(* default_zip_name, lines 64-88.  Strings are sequences of characters. *)

\* the path pieces a base path is built from
Slash == <<"/">>
Underscore == <<"_">>
Wildcard == <<"%", "2", "A">>
W_REST == <<"R", "E", "S", "T">>
W_projects == <<"p", "r", "o", "j", "e", "c", "t", "s">>
W_subjects == <<"s", "u", "b", "j", "e", "c", "t", "s">>
W_experiments == <<"e", "x", "p", "e", "r", "i", "m", "e", "n", "t", "s">>
W_p == <<"p">>
W_s == <<"s">>
W_e == <<"e">>
W_T1 == <<"T", "1">>
W_T2 == <<"T", "2">>
W_ALL == <<"A", "L", "L">>
W_Scans == <<"S", "c", "a", "n", "s">>
W_Assessors == <<"A", "s", "s", "e", "s", "s", "o", "r", "s">>
W_str == <<"s", "t", "r">>
W_unicode == <<"u", "n", "i", "c", "o", "d", "e">>

\* a base path has at most MaxSegments segments
MaxSegments == 4
\* a constraints list has at most MaxConstraints tokens
MaxConstraints == 2

\* the first two characters of the wildcard
W_HalfWildcard == <<"%", "2">>

Segments == {W_REST, W_projects, W_subjects, W_p, W_s, Wildcard, W_HalfWildcard}

RECURSIVE Concat(_)
Concat(ss) == IF ss = <<>> THEN <<>> ELSE Head(ss) \o Concat(Tail(ss))

\* "/" + segment for every segment, concatenated
PathOf(segs) == Concat([i \in 1..Len(segs) |-> Slash \o segs[i]])

\* the path of the docstring's example, lines 73-76
ExamplePath == PathOf(<<W_projects, W_p, W_subjects, W_s, W_experiments, W_e>>)

BasePaths == {PathOf(segs) : segs \in SeqsUpTo(Segments, MaxSegments)} \cup {ExamplePath}

ConstraintLists == SeqsUpTo({W_T1, W_T2}, MaxConstraints)

\* the classes a collection object may have, and the classes of a Python 2 string
Kinds == {W_Scans, W_Assessors}
StringTypes == {W_str, W_unicode}

\* a test that finds sub only at the beginning of s
Contains_as_prefix(s, sub) ==
    Len(sub) <= Len(s) /\ SubSeq(s, 1, Len(sub)) = sub

\* sub in s
Contains(s, sub) ==
    \E i \in 1..(Len(s) + 1) :
        /\ i + Len(sub) - 1 <= Len(s)
        /\ SubSeq(s, i, i + Len(sub) - 1) = sub

\* s.split(sep) for a one-character sep
RECURSIVE split(_, _)
split(s, sep) ==
    LET at == {i \in 1..Len(s) : s[i] = sep}
    IN  IF at = {} THEN <<s>>
        ELSE LET i == CHOOSE k \in at : \A j \in at : k <= j
             IN  <<SubSeq(s, 1, i - 1)>> \o split(SubSeq(s, i + 1, Len(s)), sep)

\* sep.join(list)
RECURSIVE str_join(_, _)
str_join(sep, list) ==
    IF list = <<>> THEN <<>>
    ELSE IF Len(list) = 1 THEN list[1]
    ELSE list[1] \o sep \o str_join(sep, Tail(list))

\* list[start::step], start counted from 0
RECURSIVE slice(_, _, _)
slice(list, start, step) ==
    IF start >= Len(list) THEN <<>>
    ELSE <<list[start + 1]>> \o slice(list, start + step, step)

\* line 85: instance._cbase.split('/')[2::2]
keys_of(base) == slice(split(base, "/"), 2, 2)

\* line 86: instance._cbase.split('/')[1::2][1:]
vals_of(base) == slice(slice(split(base, "/"), 1, 2), 1, 1)

\* line 88: instance._cbase.__class__.__name__, the class of the string _cbase
label_of(instance_class, base_class) == base_class

\* line 84
WildcardError(base) ==
    [type |-> "ValueError", msg |-> "URI contains wildcards :", uri |-> base]

\* lines 83-88
default_zip_name(base, base_class, instance_class, cons) ==
    IF Contains(base, Wildcard)
    THEN Raised(WildcardError(base))
    ELSE Ok(str_join(Underscore, vals_of(base)) \o Underscore
            \o label_of(instance_class, base_class) \o Underscore
            \o str_join(Underscore, cons))

\* default_zip_name(instance, constraints) is called and returns or raises
DefaultZipName ==
    /\ name_pc = "input"
    /\ name_result' = default_zip_name(cbase, cbase_type, kind, constraints)
    /\ name_pc' = "done"
    /\ UNCHANGED <<cbase, cbase_type, kind, constraints, dvars, gvars,
                   constraints_str, parse_pc, parsed, reparsed>>

InitDownloadIdle ==
    /\ fs = [p \in {} |-> OldFile]
    /\ fs0 = fs
    /\ pc = "off"
    /\ args = NoArgs
    /\ available = NoValue
    /\ zip_location = NoValue
    /\ fzip = NoHandle
    /\ result = NoResult
    /\ log = <<>>

InitNamingInputs ==
    /\ cbase \in BasePaths
    /\ cbase_type \in StringTypes
    /\ kind \in Kinds
    /\ constraints \in ConstraintLists
    /\ name_pc = "input"
    /\ name_result = NoResult
    /\ constraints_str = <<>>
    /\ parse_pc = "off"
    /\ parsed = NoResult
    /\ reparsed = NoResult
    /\ ncalls = 0
    /\ fetches = 0
    /\ InitDownloadIdle

NextNaming == DefaultZipName

SpecNaming == InitNamingInputs /\ [][NextNaming]_vars

----------------------------------------------------------------------------
(* download called again and again for the same destDir and zipBaseName *)

\* the number of calls of a sequence
MaxCalls == 3

\* a call with overwrite=false for the directory "d" and the name "z"
SeqCall ==
    /\ ncalls < MaxCalls
    /\ CallBody
    /\ args'.dest_dir = "d"
    /\ args'.zip_name = "z"
    /\ args'.instance = "scans"
    /\ ~ args'.overwrite
    /\ ncalls' = ncalls + 1
    /\ UNCHANGED fetches

\* the fetch; fetches counts the fetches that wrote a file at the preset path
SeqExec ==
    /\ ExecBody
    /\ fetches' = IF pc' = "open" THEN fetches + 1 ELSE fetches
    /\ UNCHANGED ncalls

NextSequence ==
    \/ SeqCall
    \/ GetAvailable
    \/ CheckExists
    \/ Preset
    \/ SeqExec
    \/ Open
    \/ Unzip
    \/ CloseReturn
    \/ Return

SpecSequence == Init /\ [][NextSequence]_vars

----------------------------------------------------------------------------
(* make_constraints_list, lines 49-62 *)

Comma == <<",">>
Space == <<" ">>

\* a raw constraints string is made of at most MaxRawPieces pieces
MaxRawPieces == 5

RawPieces == {Comma, Space, W_ALL, W_T1, W_T2}
RawStrings == {Concat(ps) : ps \in SeqsUpTo(RawPieces, MaxRawPieces)}

\* the characters str.strip() removes
Whitespace == {" ", "\t", "\n", "\r"}

\* c.strip(), line 54
RECURSIVE strip(_)
strip(c) ==
    IF c = <<>> THEN c
    ELSE IF Head(c) \in Whitespace THEN strip(Tail(c))
    ELSE IF c[Len(c)] \in Whitespace THEN strip(SubSeq(c, 1, Len(c) - 1))
    ELSE c

\* a loop that tests the segment itself, not the stripped segment, against ""
RECURSIVE collect_testing_unstripped(_)
collect_testing_unstripped(segments) ==
    IF segments = <<>> THEN <<>>
    ELSE (IF Head(segments) # <<>> THEN <<strip(Head(segments))>> ELSE <<>>)
         \o collect_testing_unstripped(Tail(segments))

\* the loop of lines 53-56 over the segments: the stripped, non-empty ones, in order
RECURSIVE collect(_)
collect(segments) ==
    IF segments = <<>> THEN <<>>
    ELSE (IF strip(Head(segments)) # <<>> THEN <<strip(Head(segments))>> ELSE <<>>)
         \o collect(Tail(segments))

Range(list) == {list[i] : i \in 1..Len(list)}

\* list(set(constraints_list)), line 58: the distinct elements, in an order the
\* hashing of the set decides; every order is possible
Orderings(S) ==
    {f \in [1..Cardinality(S) -> S] : \A i, j \in 1..Cardinality(S) : f[i] = f[j] => i = j}

\* a test that rejects ALL even when it stands alone
all_with_others_or_alone(list) == W_ALL \in Range(list)

\* the test of line 59
all_with_others(list) == Len(list) > 1 /\ W_ALL \in Range(list)

\* line 60
AllNotAlone ==
    [type |-> "ValueError",
     msg |-> "The \"ALL\" scan type constraint cannot be used with any other constraint"]

\* make_constraints_list(constraints_str): the results it may return or raise
make_constraints_list(str) ==
    {IF all_with_others(list) THEN Raised(AllNotAlone) ELSE Ok(list) :
        list \in Orderings(Range(collect(split(str, ","))))}

\* make_constraints_list(constraints_str) is called and returns or raises
MakeConstraintsList ==
    /\ parse_pc = "input"
    /\ parsed' \in make_constraints_list(constraints_str)
    /\ parse_pc' = "parsed"
    /\ UNCHANGED <<constraints_str, reparsed, dvars, gvars,
                   cbase, cbase_type, kind, constraints, name_pc, name_result>>

\* the returned list is joined with commas and parsed again
ParseAgain ==
    /\ parse_pc = "parsed"
    /\ parsed.kind = "ok"
    /\ reparsed' \in make_constraints_list(str_join(Comma, parsed.value))
    /\ parse_pc' = "reparsed"
    /\ UNCHANGED <<constraints_str, parsed, dvars, gvars,
                   cbase, cbase_type, kind, constraints, name_pc, name_result>>

InitConstraintsInputs ==
    /\ constraints_str \in RawStrings
    /\ parse_pc = "input"
    /\ parsed = NoResult
    /\ reparsed = NoResult
    /\ cbase = <<>>
    /\ cbase_type = W_str
    /\ kind = W_Scans
    /\ constraints = <<>>
    /\ name_pc = "off"
    /\ name_result = NoResult
    /\ ncalls = 0
    /\ fetches = 0
    /\ InitDownloadIdle

NextConstraints ==
    \/ MakeConstraintsList
    \/ ParseAgain

SpecConstraints == InitConstraintsInputs /\ [][NextConstraints]_vars

----------------------------------------------------------------------------
(* Properties of download *)

\* a call of download is running or has just ended
InCall == pc \in {"get", "exists", "preset", "exec", "open", "unzip", "close", "done"}
CallEnded == pc = "done"
\* the archive of the running call was fetched and opened
Opened == fzip.state # "none"
\* the ops of the log, in order
Ops == [i \in 1..Len(log) |-> log[i].op]
Did(op) == \E i \in 1..Len(log) : log[i].op = op
\* the file that extracting member number i of the opened archive writes
Target(i) ==
    IF args.dest_dir = ""
    THEN relative(fzip.namelist[i])
    ELSE args.dest_dir \o "/" \o relative(fzip.namelist[i])
\* the path destDir/member that the check of line 157 tests and line 41 returns
Joined(i) == join(args.dest_dir, fzip.namelist[i])
\* the paths that exist when the members are tested: those of before the call
\* and the archive itself
BeforeUnzip == DOMAIN fs0 \cup {zip_location}
\* member i is tested by the guarded check and fails it
Collides(i) == Joined(i) \in BeforeUnzip
\* the files the running call wrote as archive members
ExtractedPaths == {p \in DOMAIN fs : fs[p].kind = "member"}

\* C1 (as claimed): in a call with overwrite=false, every file that existed
\* when the call was entered (the zip, and any file an archive member is
\* extracted to) is still there with the content it had, at every point of the
\* call and when it returns or raises.
C1_NoClobber ==
    (InCall /\ ~ args.overwrite) =>
        \A p \in DOMAIN fs0 : p \in DOMAIN fs /\ fs[p] = fs0[p]

\* C2: when at least one member of the opened archive fails the check, the
\* call ends with no member written to destDir and with the downloaded zip
\* still at zipPath, and every test of a member precedes the extraction.
C2_AllOrNothing ==
    /\ (CallEnded /\ Opened /\ args.extract /\ ~ args.overwrite
          /\ \E i \in 1..Len(fzip.namelist) : Collides(i)) =>
           /\ ExtractedPaths = {}
           /\ zip_location \in DOMAIN fs
           /\ fs[zip_location] = ZipFile(fzip.namelist)
           /\ ~ Did("extractall")
    /\ \A i, j \in 1..Len(log) :
           (log[i].op = "check" /\ log[j].op = "extractall") => i < j

\* C2 witness: the call has ended, the second member of the archive fails the
\* check and the first one passes it.
C2_Witness ==
    /\ CallEnded /\ Opened /\ args.extract /\ ~ args.overwrite
    /\ Len(fzip.namelist) >= 2
    /\ ~ Collides(1)
    /\ Collides(2)

\* the index of the first member, in archive order, that fails the check
FirstColliding ==
    CHOOSE i \in 1..Len(fzip.namelist) :
        Collides(i) /\ \A j \in 1..(i - 1) : ~ Collides(j)

\* C3 (as claimed): a call with extract=true, overwrite=false and a member whose
\* target already exists ends with the EnvironmentError of line 163, naming
\* the first failing member and the description of the check.
C3_ExtractionBlockedError ==
    (CallEnded /\ Opened /\ args.extract /\ ~ args.overwrite
       /\ \E i \in 1..Len(fzip.namelist) : Joined(i) \in DOMAIN fs0) =>
        /\ result.kind = "error"
        /\ result.error =
             ExtractionBlocked(zip_location, fzip.namelist[FirstColliding])

\* C4 (as claimed): a call with extract=true whose archive has no member that
\* collides with an existing file extracts every member and returns success
\* with one path destDir/member per member.
C4_ExtractsAndReturnsPaths ==
    (CallEnded /\ Opened /\ args.extract
       /\ \A i \in 1..Len(fzip.namelist) :
              ~ Collides(i) /\ Target(i) \notin BeforeUnzip) =>
        /\ result.kind = "ok"
        /\ result.value = [i \in 1..Len(fzip.namelist) |-> Joined(i)]
        /\ \A i \in 1..Len(fzip.namelist) : Target(i) \in ExtractedPaths

\* the call was entered with overwrite=false while a file was at zipPath
ZipWasThere ==
    /\ precondition(args.instance, args.dest_dir, args.zip_name) = NoError
    /\ ~ args.overwrite
    /\ join(args.dest_dir, args.zip_name \o ".zip") \in DOMAIN fs0

\* C5 (as claimed): a call with overwrite=false and a file at zipPath fails
\* with the EnvironmentError of line 147 and makes no call to the owner or to
\* its transport: no availability query, no preset, no fetch.
C5_NoOwnerCallAtAll ==
    (CallEnded /\ ZipWasThere) =>
        /\ result = Raised(DestinationExists(zip_location))
        /\ ~ Did("get") /\ ~ Did("preset") /\ ~ Did("exec")

\* C5 (amended): a call with overwrite=false and a file at zipPath fails with
\* the EnvironmentError of line 147 naming zipPath, without presetting the
\* cache, fetching or opening the archive; what it did is the availability
\* query of line 136 followed by the existence test, and it changed no file.
C5_DestinationExistsBeforeFetch ==
    /\ (InCall /\ ZipWasThere) =>
           /\ ~ Did("preset") /\ ~ Did("exec") /\ ~ Did("open")
           /\ pc \in {"get", "exists", "done"}
           /\ fs = fs0
    /\ (CallEnded /\ ZipWasThere) =>
           /\ result = Raised(DestinationExists(join(args.dest_dir, args.zip_name \o ".zip")))
           /\ Ops = <<"get", "exists">>

\* C5 witness: such a call has ended.
C5_Witness ==
    /\ CallEnded /\ ZipWasThere
    /\ result.kind = "error"

\* C6 (as claimed): whenever a call has ended, the archive handle it opened is
\* closed.
C6_HandleClosedAtExit ==
    CallEnded => fzip.state # "open"

\* C7 (as claimed): a call that has ended either succeeded, with the archive
\* at zipPath or, under extract=true, with every member extracted, or failed
\* without having extracted any member.
C7_NoPartialSuccess ==
    CallEnded =>
        \/ /\ result.kind = "ok"
           /\ IF args.extract
              THEN \A i \in 1..Len(fzip.namelist) : Target(i) \in ExtractedPaths
              ELSE zip_location \in DOMAIN fs /\ fs[zip_location].kind = "zip"
        \/ /\ result.kind = "error"
           /\ ExtractedPaths = {}

\* C8 (as claimed): a call whose owner is absent, or whose destDir or
\* zipBaseName is absent or empty, fails with the argument error before any
\* query, existence test, preset, fetch or open.
C8_AbsentOrEmptyRejected ==
    (InCall /\ (\/ args.instance = None
                \/ args.dest_dir \in {None, ""}
                \/ args.zip_name \in {None, ""})) =>
        /\ pc = "done"
        /\ result.kind = "error"
        /\ result.error.type = "Exception"
        /\ log = <<>>

\* C8 (amended): a call whose owner, destDir or zipBaseName is None fails with
\* the generic Exception of lines 128-133 before any query, existence test,
\* preset, fetch or open, and changes no file.
C8_AbsentRejected ==
    (InCall /\ (\/ args.instance = None
                \/ args.dest_dir = None
                \/ args.zip_name = None)) =>
        /\ pc = "done"
        /\ result.kind = "error"
        /\ result.error.type = "Exception"
        /\ log = <<>>
        /\ fzip = NoHandle
        /\ fs = fs0

\* C8 witness: a call given an owner and a destDir but no zipBaseName has ended.
C8_Witness ==
    /\ CallEnded
    /\ args.instance # None /\ args.dest_dir # None /\ args.zip_name = None

\* C9: the fetch is invoked at most once in a call; when it raises, nothing
\* follows it in the call, the call ends with that very error, the archive is
\* not opened and no member is extracted.
C9_TransportFailure ==
    /\ Cardinality({i \in 1..Len(log) : log[i].op = "exec"}) <= 1
    /\ \A i \in 1..Len(log) :
           (log[i].op = "exec" /\ log[i].err # NoError) =>
               /\ i = Len(log)
               /\ pc = "done"
               /\ result = Raised(log[i].err)
               /\ fzip = NoHandle
               /\ ~ Did("open")
               /\ ExtractedPaths = {}

\* C9 witness: a call has ended because the fetch raised.
C9_Witness ==
    /\ CallEnded
    /\ Len(log) > 0
    /\ log[Len(log)].op = "exec"
    /\ log[Len(log)].err \in TransportErrors

\* after the availability query the call goes on to the existence test and,
\* unless that test fails, to the fetch
ContinuesToFetch ==
    /\ Len(log) >= 1 /\ Ops[1] = "get"
    /\ (pc = "exists") => (Ops = <<"get">> /\ result = NoResult)
    /\ (pc # "exists" /\ ~ args.overwrite) => (Len(log) >= 2 /\ Ops[2] = "exists")
    /\ (pc \notin {"exists", "preset", "exec"} /\ ~ ZipWasThere) => Did("exec")
    /\ (CallEnded /\ ~ Did("exec")) =>
           /\ ZipWasThere
           /\ result = Raised(DestinationExists(zip_location))

ZipPath == join(args.dest_dir, args.zip_name \o ".zip")

\* C16: a call with extract=false that succeeds returns exactly zipPath, and
\* the file at zipPath is the only one it created or changed; a call with
\* extract=false extracts no member and tests no member path.
C16_ReturnsZipPathOnly ==
    /\ (CallEnded /\ ~ args.extract /\ result.kind = "ok") =>
           /\ result.value = <<ZipPath>>
           /\ DOMAIN fs = DOMAIN fs0 \cup {ZipPath}
           /\ \A p \in DOMAIN fs0 \ {ZipPath} : fs[p] = fs0[p]
           /\ fs[ZipPath].kind = "zip"
    /\ (InCall /\ ~ args.extract) =>
           /\ ExtractedPaths = {}
           /\ ~ Did("check")
           /\ ~ Did("extractall")

\* C16 witness: a call with extract=false has fetched an archive of two members
\* into a directory that holds other files, and returned success.
C16_Witness ==
    /\ CallEnded /\ ~ args.extract /\ result.kind = "ok"
    /\ Len(fs[ZipPath].members) = 2
    /\ DOMAIN fs0 \ {ZipPath} # {}

\* zipPath of the calls of a sequence
SeqZipPath == join("d", "z" \o ".zip")

\* C17: in a sequence of calls with overwrite=false for the same destDir and
\* zipBaseName, a call entered while a file is at zipPath does not preset or
\* fetch, leaves that file as it is and ends with the EnvironmentError of line
\* 147; a file a fetch wrote at zipPath stays there, so that in the whole
\* sequence at most one fetch writes a file at zipPath.
C17_NeverOverwritten ==
    /\ fetches <= 1
    /\ (fetches = 1) => SeqZipPath \in DOMAIN fs
    /\ (InCall /\ SeqZipPath \in DOMAIN fs0) =>
           /\ ~ Did("preset") /\ ~ Did("exec")
           /\ SeqZipPath \in DOMAIN fs
           /\ fs[SeqZipPath] = fs0[SeqZipPath]
    /\ (CallEnded /\ SeqZipPath \in DOMAIN fs0) =>
           result = Raised(DestinationExists(SeqZipPath))

\* C17 witness: the third call of a sequence has ended with that error; the
\* file at zipPath was written by a fetch of an earlier call of the sequence.
C17_Witness ==
    /\ ncalls = 3
    /\ fetches = 1
    /\ CallEnded
    /\ result = Raised(DestinationExists(SeqZipPath))

\* C18: in a call, the fetch comes after a preset of the cache at zipPath, the
\* archive is opened only after a fetch that raised nothing, and the path that
\* is preset, the path that is opened and, with extract=false, the path that
\* is returned are zipPath.
C18_PresetFetchOpen ==
    /\ \A i \in 1..Len(log) :
           /\ (log[i].op = "preset") => log[i].arg = ZipPath
           /\ (log[i].op = "exec") =>
                  \E j \in 1..(i - 1) : log[j].op = "preset" /\ log[j].arg = ZipPath
           /\ (log[i].op = "open") =>
                  /\ log[i].arg = ZipPath
                  /\ \E j \in 1..(i - 1) : log[j].op = "exec" /\ log[j].err = NoError
    /\ (InCall /\ Opened) =>
           \E i, j, k \in 1..Len(log) :
               /\ i < j /\ j < k
               /\ log[i] = Event("preset", ZipPath)
               /\ log[j] = Event("exec", Uri)
               /\ log[k] = Event("open", ZipPath)
    /\ (CallEnded /\ ~ args.extract /\ result.kind = "ok") =>
           /\ Opened
           /\ result.value = <<ZipPath>>

\* C18 witness: a call with extract=false has preset the cache, fetched, opened
\* and closed the archive, and returned.
C18_Witness ==
    /\ CallEnded /\ ~ args.extract /\ result.kind = "ok"
    /\ SubSeq(Ops, Len(Ops) - 3, Len(Ops)) = <<"preset", "exec", "open", "close">>

----------------------------------------------------------------------------
(* Properties of default_zip_name *)

\* base has the form /k1/v1/.../kn/vn, n >= 1, and holds no wildcard
KeyValuePath(base) ==
    LET segs == split(base, "/")
    IN  /\ ~ Contains(base, Wildcard)
        /\ Len(segs) >= 3
        /\ Len(segs) % 2 = 1
        /\ segs[1] = <<>>
        /\ \A i \in 2..Len(segs) : segs[i] # <<>>

\* v1, ..., vn of such a path
ValuesOf(base) ==
    LET segs == split(base, "/")
    IN  [i \in 1..((Len(segs) - 1) \div 2) |-> segs[2 * i + 1]]

\* C10 (as claimed): for a path /k1/v1/.../kn/vn without wildcard the name is
\* v1_..._vn, then _ and the kind of the collection, then _ and the
\* constraints joined by _.
C10_DefaultName ==
    (name_pc = "done" /\ KeyValuePath(cbase)) =>
        name_result =
            Ok(str_join(Underscore, ValuesOf(cbase)) \o Underscore \o kind
               \o Underscore \o str_join(Underscore, constraints))

\* the characters %, 2, A stand next to each other somewhere in s
HasMarker(s) ==
    \E i \in 1..Len(s) :
        i + 2 <= Len(s) /\ s[i] = "%" /\ s[i + 1] = "2" /\ s[i + 2] = "A"

\* C13: default_zip_name raises the ValueError of line 84 for every base path
\* that contains %2A, whatever the constraints are, and then returns no name;
\* for a base path without %2A it returns a name and does not raise.
C13_WildcardPathError ==
    (name_pc = "done") =>
        /\ HasMarker(cbase) =>
             /\ name_result.kind = "error"
             /\ name_result.error.type = "ValueError"
             /\ name_result.error.uri = cbase
             /\ name_result.value = <<>>
        /\ ~ HasMarker(cbase) => name_result.kind = "ok"

\* C13 witness: a path with %2A after its first segment, with constraints, has
\* been named and the call raised.
C13_Witness ==
    /\ name_pc = "done"
    /\ cbase = PathOf(<<W_projects, W_p, W_subjects, Wildcard>>)
    /\ constraints = <<W_T1, W_T2>>
    /\ name_result.kind = "error"

----------------------------------------------------------------------------
(* Properties of make_constraints_list *)

\* t is segment seg without the blanks at its two ends
TrimOf(t, seg) ==
    /\ t = <<>> \/ (t[1] # " " /\ t[Len(t)] # " ")
    /\ \E i \in 1..(Len(seg) + 1) :
         /\ i + Len(t) - 1 <= Len(seg)
         /\ SubSeq(seg, i, i + Len(t) - 1) = t
         /\ \A k \in 1..Len(seg) : (k < i \/ k > i + Len(t) - 1) => seg[k] = " "

\* the distinct non-empty trimmed tokens of a raw string
TokensOf(str) ==
    LET segs == split(str, ",")
        subs(seg) == {SubSeq(seg, i, j) : i \in 1..Len(seg), j \in 1..Len(seg)}
    IN  UNION {{t \in subs(segs[n]) : t # <<>> /\ TrimOf(t, segs[n])} : n \in 1..Len(segs)}

\* C11: make_constraints_list raises exactly when the distinct non-empty
\* trimmed tokens of the raw string are more than one and include ALL;
\* otherwise it returns these tokens, each once, so that ALL, when present,
\* is the only element.
C11_AllInvariant ==
    (parse_pc \in {"parsed", "reparsed"}) =>
        LET toks == TokensOf(constraints_str)
        IN  IF Cardinality(toks) > 1 /\ W_ALL \in toks
            THEN parsed = Raised(AllNotAlone)
            ELSE /\ parsed.kind = "ok"
                 /\ Range(parsed.value) = toks
                 /\ Len(parsed.value) = Cardinality(toks)
                 /\ \A i \in 1..Len(parsed.value) :
                        LET t == parsed.value[i]
                        IN  t # <<>> /\ t[1] # " " /\ t[Len(t)] # " "
                 /\ (W_ALL \in Range(parsed.value) => parsed.value = <<W_ALL>>)

\* C11 witness: "ALL,T1" has been parsed, and the call raised.
C11_Witness ==
    /\ parse_pc = "parsed"
    /\ constraints_str = W_ALL \o Comma \o W_T1
    /\ parsed = Raised(AllNotAlone)

\* C12: when make_constraints_list returned a list, parsing the list joined
\* with commas returns a list too, with the same set of tokens.
C12_RoundTrip ==
    (parse_pc = "reparsed") =>
        /\ reparsed.kind = "ok"
        /\ Range(reparsed.value) = Range(parsed.value)

\* C12 witness: a raw string with a blank, an empty segment and two tokens
\* has been parsed, joined and parsed again.
C12_Witness ==
    /\ parse_pc = "reparsed"
    /\ constraints_str = Space \o W_T1 \o Comma \o Comma \o W_T2
    /\ Len(parsed.value) = 2

====
